---- MODULE Spec2Model ----
(***************************************************************************)
(* PyWt: the widget tree, the Application's update queue and its flush     *)
(* task, and the Navigator's page-visibility state machine.                *)
(*                                                                         *)
(* One Application (one Session) is modelled.  Every action is one         *)
(* synchronous block of Python code between two suspension points of the   *)
(* asyncio event loop.                                                     *)
(***************************************************************************)
EXTENDS Integers, Sequences, FiniteSets, TLC

\* ------------------------------------------------------------------ bounds
MaxNodes == 4      \* widgets ever constructed, the root included
MaxQueue == 5      \* length of Application._update_queue
MaxHistory == 2    \* length of Navigator.history
MaxHandlers == 2   \* subscribers of one Signal
MaxBacklog == 0    \* records waiting in the queue when a client message is handled

\* ------------------------------------------------------------ input sets
None == "None"
PyTrue == "True"
PyFalse == "False"
RootId == "0"
Paths == {"home", "about"}
UnknownPath == "nowhere"
Clients == {"c1"}
TextValues == {"a", "b"}
NavigationId == "navigation"
\* what the application registers: the pages of examples/multi_page_app.py
Registrations == {[path |-> "home", cls |-> "HomePage", title |-> "PyWt - Home"],
                  [path |-> "about", cls |-> "Page", title |-> "PyWt - Sobre"]}

VARIABLES
    nextId,        \* number of Widget objects constructed so far
    kind,          \* widget id -> class name       (self.__class__.__name__)
    parent,        \* widget id -> parent id | None (Widget.parent)
    children,      \* widget id -> sequence of ids  (Widget.children)
    app,           \* widget id -> BOOLEAN          (Widget.app is the Application)
    props,         \* widget id -> property map     (Widget._properties)
    path,          \* page id   -> path             (Page.path)
    handlers,      \* widget id -> [click, change: sequence of subscribers] (Signal.handlers)
    widgets,       \* Application.widgets: the registered ids
    clients,       \* Application._clients
    update_queue,  \* Application._update_queue
    tasks,         \* the _process_updates tasks alive; the last is _update_task
    pages,         \* Navigator.pages, in insertion order: <<[path, page]>>
    current_page,  \* Navigator.current_page: id | None
    default_page,  \* Navigator.default_page: path | None
    history,       \* Navigator.history
    nav,           \* the navigate_to coroutine suspended in a lifecycle hook, if any
    emitting,      \* the Signal.emit coroutine whose subscribers have suspended, if any
    connecting,    \* the clients whose connect_client is suspended in its send_str
    calls,         \* history: update records of set_property calls since the last queue swap
    qinfo,         \* history: [conn: some queued record was appended while a client was
                   \* connected, sent: how many queued records an earlier batch carried]
    last           \* history: the operation that ran last, with its arguments

vars == <<nextId, kind, parent, children, app, props, handlers, path, widgets, clients,
          update_queue, tasks, pages, current_page, default_page, history, nav, emitting,
          connecting, calls, qinfo, last>>

\* --------------------------------------------------------------- helpers
Id(i) == ToString(i)
NodeIds == {Id(i) : i \in 0..(nextId - 1)}
Range(s) == {s[i] : i \in DOMAIN s}
Get(m, name, default) == IF name \in DOMAIN m THEN m[name] ELSE default

\* list.remove(x): drops the first occurrence
RemoveFirst(s, x) ==
    LET i == CHOOSE k \in DOMAIN s : s[k] = x /\ \A j \in 1..(k - 1) : s[j] # x
    IN  SubSeq(s, 1, i - 1) \o SubSeq(s, i + 1, Len(s))

\* The mutable objects an operation can touch, as one value, so that the calls
\* an operation makes compose in the order the code makes them.
Heap == [parent |-> parent, children |-> children, app |-> app, props |-> props,
         handlers |-> handlers, widgets |-> widgets, update_queue |-> update_queue, tasks |-> tasks,
         calls |-> calls, qinfo |-> qinfo]

HeapVars == <<parent, children, app, props, handlers, widgets, update_queue, tasks, calls, qinfo>>

Store(h) ==
    /\ parent' = h.parent
    /\ children' = h.children
    /\ app' = h.app
    /\ props' = h.props
    /\ handlers' = h.handlers
    /\ widgets' = h.widgets
    /\ update_queue' = h.update_queue
    /\ tasks' = h.tasks
    /\ calls' = h.calls
    /\ qinfo' = h.qinfo
    /\ Len(h.update_queue) <= MaxQueue

\* --------------------------------------------------- Application: the queue
\* a task created for every update, whatever the previous task does
NoLiveTaskUnchecked(ts) == TRUE

\* not self._update_task or self._update_task.done()
NoLiveTask(ts) == ts = <<>> \/ ts[Len(ts)].pc = "done"

\* batch, to: the message being sent and its recipients; calls, stale, window:
\* history, the set_property calls the batch should carry, whether it repeats a sent
\* record, and the records enqueued since the task was created
NewTask == [pc |-> "scheduled", batch |-> <<>>, to |-> {}, calls |-> <<>>, stale |-> FALSE,
            window |-> <<>>]

\* asyncio.create_task(self._process_updates()); a finished task that is no
\* longer referenced is forgotten
CreateTask(ts) == Append(SelectSeq(ts, LAMBDA t : t.pc # "done"), NewTask)

\* a queue that merges a record equal to the one before it
EnqueueMerging(q, update) ==
    IF q # <<>> /\ q[Len(q)] = update THEN q ELSE Append(q, update)

\* self._update_queue.append(update)
Enqueue(q, update) == Append(q, update)

\* history: the record joins the window of the task that has not resumed yet
NoteQueued(ts, update) ==
    IF ts # <<>> /\ ts[Len(ts)].pc = "scheduled"
    THEN [ts EXCEPT ![Len(ts)].window = Append(@, update)]
    ELSE ts

ScheduleUpdate(h, update) ==
    [h EXCEPT !.update_queue = Enqueue(@, update),
              !.qinfo = [@ EXCEPT !.conn = @ \/ clients # {}],
              !.tasks = NoteQueued(IF NoLiveTask(@) THEN CreateTask(@) ELSE @, update)]

\* ------------------------------------------------------------------ Widget
UpdateRecord(w, name, value) ==
    [action |-> "update", id |-> w, property |-> name, value |-> value]

SetProperty(h, w, name, value) ==
    LET h1 == [h EXCEPT !.props[w] = (name :> value) @@ @]
    IN  IF h1.app[w]
        THEN ScheduleUpdate([h1 EXCEPT !.calls = Append(@, UpdateRecord(w, name, value))],
                            UpdateRecord(w, name, value))
        ELSE h1

RemoveRecord(w) == [action |-> "remove", id |-> w]

\* a remove that also records the removed widget's children
RemoveCascading(h, p, child) ==
    IF child \in Range(h.children[p])
    THEN LET h1 == [h EXCEPT !.children[p] = RemoveFirst(@, child),
                             !.parent[child] = None]
             recs == <<RemoveRecord(child)>>
                     \o [k \in DOMAIN h.children[child] |-> RemoveRecord(h.children[child][k])]
         IN  IF h1.app[p]
             THEN [h1 EXCEPT !.update_queue = @ \o recs,
                             !.qinfo = [@ EXCEPT !.conn = @ \/ clients # {}],
                             !.tasks = IF NoLiveTask(@) THEN CreateTask(@) ELSE @]
             ELSE h1
    ELSE h

\* a remove that unbinds the child from the application
RemoveUnbinding(h, p, child) ==
    IF child \in Range(h.children[p])
    THEN LET h1 == [h EXCEPT !.children[p] = RemoveFirst(@, child),
                             !.parent[child] = None,
                             !.app[child] = FALSE,
                             !.widgets = @ \ {child}]
         IN  IF h1.app[p] THEN ScheduleUpdate(h1, RemoveRecord(child)) ELSE h1
    ELSE h

Remove(h, p, child) ==
    IF child \in Range(h.children[p])
    THEN LET h1 == [h EXCEPT !.children[p] = RemoveFirst(@, child),
                             !.parent[child] = None]
         IN  IF h1.app[p] THEN ScheduleUpdate(h1, RemoveRecord(child)) ELSE h1
    ELSE h

RegisterWidget(h, w) == [h EXCEPT !.widgets = @ \cup {w}]

\* Widget._set_application walks the children lists with no memory of the widgets
\* it has visited.  r: the objects so far and whether the walk has come back to a
\* widget it is still inside, where Python's recursion never returns and ends in
\* RecursionError; the widgets after that child in a list are not reached.
RECURSIVE Descend(_, _, _)
RECURSIVE DescendAll(_, _, _)
Descend(r, w, inside) ==
    IF r.raised THEN r
    ELSE IF w \in inside THEN [r EXCEPT !.raised = TRUE]
    ELSE DescendAll([r EXCEPT !.heap = RegisterWidget([@ EXCEPT !.app[w] = TRUE], w)],
                    r.heap.children[w], inside \cup {w})
DescendAll(r, kids, inside) ==
    IF kids = <<>> THEN r
    ELSE DescendAll(Descend(r, Head(kids), inside), Tail(kids), inside)

\* a _set_application that binds the widget and leaves its children alone
SetApplicationShallow(h, w) == RegisterWidget([h EXCEPT !.app[w] = TRUE], w)

SetApplication(h, w) == Descend([heap |-> h, raised |-> FALSE], w, {}).heap

\* an add that leaves the child in the list of its old parent
AddCopying(h, p, child) ==
    LET h2 == [h EXCEPT !.parent[child] = p]
        h3 == SetProperty(h2, child, "parent", p)
        h4 == [h3 EXCEPT !.children[p] = Append(@, child)]
    IN  IF h4.app[p] THEN SetApplication(h4, child) ELSE h4

Add(h, p, child) ==
    LET h1 == IF h.parent[child] # None THEN Remove(h, h.parent[child], child) ELSE h
        h2 == [h1 EXCEPT !.parent[child] = p]
        h3 == SetProperty(h2, child, "parent", p)
        h4 == [h3 EXCEPT !.children[p] = Append(@, child)]
    IN  IF h4.app[p] THEN SetApplication(h4, child) ELSE h4

\* add(child) ends in RecursionError: the child's subtree leads back into itself
AddRaises(h, p, child) ==
    LET h1 == IF h.parent[child] # None THEN Remove(h, h.parent[child], child) ELSE h
        h4 == [h1 EXCEPT !.parent[child] = p, !.children[p] = Append(@, child)]
    IN  h4.app[p] /\ Descend([heap |-> h4, raised |-> FALSE], child, {}).raised

\* Widget.__init__: a fresh object, attached to nothing
NewWidget(h, w) ==
    [h EXCEPT !.parent = (w :> None) @@ @,
              !.children = (w :> <<>>) @@ @,
              !.app = (w :> FALSE) @@ @,
              !.props = (w :> <<>>) @@ @,
              !.handlers = (w :> [click |-> <<>>, change |-> <<>>]) @@ @]

\* Label(text)
NewLabel(h, w, text) ==
    SetProperty(SetProperty(NewWidget(h, w), w, "type", "Label"), w, "text", text)

\* Container() then Page(path, title)
NewPage(h, w, p, title) ==
    LET c == SetProperty(NewWidget(h, w), w, "type", "Container")
    IN  SetProperty(SetProperty(SetProperty(c, w, "type", "Page"), w, "title", title),
                    w, "path", p)

\* a Page subclass of the application, like HomePage: it sets its type and adds a
\* Label (one Label stands for the labels and links it adds)
NewHomePage(h, w, lbl, p, title) ==
    LET pg == SetProperty(NewPage(h, w, p, title), w, "type", "HomePage")
    IN  Add(NewLabel(pg, lbl, "a"), w, lbl)

\* A dictionary held by a record is either a value of its own or the widget's
\* live _properties object, written [alias |-> w].
\* a snapshot that holds self._properties itself
DictAlias(h, w) == [alias |-> w]

\* dict(self._properties)
DictCopy(h, w) == h.props[w]

\* Widget.get_initial_state
InitialState(h, w) ==
    [id |-> w,
     type |-> kind[w],
     properties |-> IF h.parent[w] # None /\ "parent" \notin DOMAIN h.props[w]
                    THEN ("parent" :> h.parent[w]) @@ DictCopy(h, w)
                    ELSE DictCopy(h, w),
     children |-> h.children[w]]

\* json.dumps of a record: a dictionary is written with the content it has then
Deref(h, d) == IF "alias" \in DOMAIN d THEN h.props[d["alias"]] ELSE d

RECURSIVE DumpSnapshots(_, _)
DumpSnapshots(h, ss) ==
    IF ss = <<>> THEN <<>>
    ELSE <<[Head(ss) EXCEPT !.properties = Deref(h, @)]>> \o DumpSnapshots(h, Tail(ss))

DumpRecord(h, rec) ==
    IF rec.action = "page_widgets"
    THEN [rec EXCEPT !.widgets = DumpSnapshots(h, @)]
    ELSE rec

\* json.dumps({"updates": updates})
RECURSIVE Dump(_, _)
Dump(h, q) == IF q = <<>> THEN <<>> ELSE <<DumpRecord(h, Head(q))>> \o Dump(h, Tail(q))

\* Application._collect_widget_states
RECURSIVE CollectWidgetStates(_, _)
RECURSIVE CollectAll(_, _)
CollectWidgetStates(h, w) == <<InitialState(h, w)>> \o CollectAll(h, h.children[w])
CollectAll(h, kids) ==
    IF kids = <<>> THEN <<>>
    ELSE CollectWidgetStates(h, Head(kids)) \o CollectAll(h, Tail(kids))

\* -------------------------------------------------------------------- Init
EmptyHeap == [parent |-> <<>>, children |-> <<>>, app |-> <<>>, props |-> <<>>,
              handlers |-> <<>>,
              widgets |-> {}, update_queue |-> <<>>, tasks |-> <<>>,
              calls |-> <<>>, qinfo |-> [conn |-> FALSE, sent |-> 0]]

\* Application.__init__: empty collections, then RootContainer(self), which binds
\* itself to the application, registers itself and sets its type property
NewRoot(h) ==
    SetProperty(RegisterWidget([NewWidget(h, RootId) EXCEPT !.app[RootId] = TRUE], RootId),
                RootId, "type", "RootContainer")

\* pc, path: where the suspended call is and its argument; target: history, the
\* page the call made visible
Idle == [pc |-> "idle", path |-> None, target |-> None]

\* no emit is under way.  w, sig: the Signal; waiting: the index of the subscriber
\* the emit awaits, 0 if none; pending: the subscribers suspended; subs, ran:
\* history, the subscriber list when the emit began and the subscribers it has
\* invoked, the k-th invoked being the one it met at index k; log: history,
\* the subscribers started and ended so far, by their index in Signal.handlers
NoEmit == [w |-> None, sig |-> None, waiting |-> 0, pending |-> {}, subs |-> <<>>,
           ran |-> <<>>, log |-> <<>>]

\* the state Application.__init__ leaves, before any client has connected
Constructed ==
    /\ nextId = 1
    /\ kind = (RootId :> "RootContainer")
    /\ path = <<>>
    /\ parent = NewRoot(EmptyHeap).parent
    /\ children = NewRoot(EmptyHeap).children
    /\ app = NewRoot(EmptyHeap).app
    /\ props = NewRoot(EmptyHeap).props
    /\ handlers = NewRoot(EmptyHeap).handlers
    /\ widgets = NewRoot(EmptyHeap).widgets
    /\ update_queue = NewRoot(EmptyHeap).update_queue
    /\ tasks = NewRoot(EmptyHeap).tasks
    /\ calls = NewRoot(EmptyHeap).calls
    /\ qinfo = [conn |-> FALSE, sent |-> 0]
    /\ pages = <<>>
    /\ current_page = None
    /\ default_page = None
    /\ history = <<>>
    /\ nav = Idle
    /\ emitting = NoEmit
    /\ connecting = {}
    /\ last = [op |-> "init"]

Init ==
    /\ clients = {}
    /\ Constructed

\* WServer.handle_websocket: the application is constructed, then its client is
\* connected, and only then are the client's messages handled
InitConnected ==
    /\ clients = Clients
    /\ Constructed

NavVars == <<pages, current_page, default_page, history, nav>>
NodeVars == <<nextId, kind, path>>

\* ----------------------------------------------- Application: the flush task
\* a flush that sends the oldest record only
SwappedFirst(q) == <<Head(q)>>

\* updates = self._update_queue.copy()
Swapped(q) == q

\* a clear() that leaves the newest record queued
ClearedButLast(q) == <<q[Len(q)]>>

\* self._update_queue.clear()
Cleared(q) == <<>>

\* a guard that looks at the queue only
NothingQueued(q, cs) == q = <<>>

\* if not self._update_queue or not self._clients: return
NothingToSend(q, cs) == q = <<>> \/ cs = {}

\* The task runs: it starts, yields once in `await asyncio.sleep(0)` and resumes.
\* No code reads anything of a task but done(), so the two loop iterations are
\* one step: the guard, the queue swap, the gather.
ProcessUpdatesResume(i) ==
    /\ tasks[i].pc = "scheduled"
    /\ IF NothingToSend(update_queue, clients)
       THEN /\ tasks' = [tasks EXCEPT ![i].pc = "done"]
            /\ last' = [op |-> "process_updates_return"]
            /\ UNCHANGED <<update_queue, calls, qinfo>>
       ELSE /\ tasks' = [tasks EXCEPT ![i] =
                          [pc |-> "sending", batch |-> Dump(Heap, Swapped(update_queue)),
                           to |-> clients, calls |-> calls,
                           stale |-> qinfo.sent > 0, window |-> <<>>]]
            /\ update_queue' = Cleared(update_queue)
            /\ qinfo' = [conn |-> qinfo.conn /\ Cleared(update_queue) # <<>>,
                         sent |-> Len(Cleared(update_queue))]
            /\ calls' = <<>>
            /\ last' = [op |-> "process_updates_swap", window |-> tasks[i].window]
    /\ UNCHANGED <<NodeVars, emitting, connecting, parent, children, app, props, handlers, widgets,
                   clients, NavVars>>

\* the gathered sends finish and the task returns
ProcessUpdatesFinish(i) ==
    /\ tasks[i].pc = "sending"
    /\ tasks' = [tasks EXCEPT ![i] = [NewTask EXCEPT !.pc = "done"]]
    /\ last' = [op |-> "process_updates_finish"]
    /\ UNCHANGED <<NodeVars, emitting, connecting, parent, children, app, props, handlers, widgets, clients,
                   update_queue, NavVars, calls, qinfo>>

\* an except clause that puts the batch back in front of the queue
ProcessUpdatesFailRequeue(i) ==
    /\ tasks[i].pc = "sending"
    /\ tasks' = [tasks EXCEPT ![i] = [NewTask EXCEPT !.pc = "done"]]
    /\ update_queue' = tasks[i].batch \o update_queue
    /\ last' = [op |-> "process_updates_failed"]
    /\ UNCHANGED <<NodeVars, emitting, connecting, parent, children, app, props, handlers, widgets, clients,
                   NavVars, calls, qinfo>>

\* a send_str raises: gather re-raises it in the task, `except Exception` prints
\* it and the task returns
ProcessUpdatesFail(i) ==
    /\ tasks[i].pc = "sending"
    /\ tasks' = [tasks EXCEPT ![i] = [NewTask EXCEPT !.pc = "done"]]
    /\ last' = [op |-> "process_updates_failed"]
    /\ UNCHANGED <<NodeVars, emitting, connecting, parent, children, app, props, handlers, widgets, clients,
                   update_queue, NavVars, calls, qinfo>>

\* Application._get_initial_state, as connect_client writes it with json.dumps
InitialStateMessage(h) == DumpSnapshots(h, CollectWidgetStates(h, RootId))

\* a connect_client that hands the initial state to the update queue
SendInitialStateQueued(h, c, msg) ==
    ScheduleUpdate(h, [action |-> "initial_state", widgets |-> msg])

\* await websocket.send_str(json.dumps({"initialState": initial_state}))
SendInitialState(h, c, msg) == h

\* Application.connect_client; history: last.initial is the message sent
ConnectClient(c) ==
    /\ c \notin clients
    /\ clients' = clients \cup {c}
    /\ Store(SendInitialState(Heap, c, InitialStateMessage(Heap)))
    /\ last' = [op |-> "connect_client", client |-> c, initial |-> InitialStateMessage(Heap)]
    /\ UNCHANGED <<NodeVars, emitting, connecting, NavVars>>

\* connect_client up to its await: the client joins _clients, the initial state
\* is collected and written, and send_str suspends
ConnectClientBegin(c) ==
    /\ c \notin clients
    /\ clients' = clients \cup {c}
    /\ connecting' = connecting \cup {c}
    /\ last' = [op |-> "connect_client_send", client |-> c,
                initial |-> InitialStateMessage(Heap)]
    /\ UNCHANGED <<NodeVars, emitting, HeapVars, NavVars>>

\* send_str returns and connect_client with it
ConnectClientSent(c) ==
    /\ c \in connecting
    /\ connecting' = connecting \ {c}
    /\ last' = [op |-> "connect_client_sent", client |-> c]
    /\ UNCHANGED <<NodeVars, emitting, HeapVars, clients, NavVars>>

\* Application.disconnect_client

DisconnectClient(c) ==
    /\ clients' = clients \ {c}
    /\ c \in clients
    /\ last' = [op |-> "disconnect_client", client |-> c]
    /\ UNCHANGED <<NodeVars, emitting, connecting, HeapVars, NavVars>>

\* ------------------------------------------------------- the program's calls
\* widget.set_property(name, value), called by application code
SetPropertyCall(w, name, value) ==
    /\ w \in NodeIds
    /\ Store(SetProperty(Heap, w, name, value))
    /\ last' = [op |-> "set_property", id |-> w, property |-> name, value |-> value,
                attached |-> app[w]]
    /\ UNCHANGED <<NodeVars, emitting, connecting, clients, NavVars>>

\* parent.add(child), called by application code; history: from is the parent the
\* child had, fresh whether the child was bound to no application
AddCall(p, child) ==
    /\ p \in NodeIds /\ child \in NodeIds
    /\ Store(Add(Heap, p, child))
    /\ last' = [op |-> "add", parent |-> p, child |-> child, from |-> parent[child],
                fresh |-> ~app[child], raised |-> AddRaises(Heap, p, child)]
    /\ UNCHANGED <<NodeVars, emitting, connecting, clients, NavVars>>

\* parent.remove(child), called by application code
RemoveCall(p, child) ==
    /\ p \in NodeIds /\ child \in NodeIds
    /\ Store(Remove(Heap, p, child))
    /\ last' = IF child \in Range(children[p])
               THEN [op |-> "remove", was_child |-> TRUE, parent |-> p, child |-> child,
                     attached |-> app[p]]
               ELSE [op |-> "remove", was_child |-> FALSE]
    /\ UNCHANGED <<NodeVars, emitting, connecting, clients, NavVars>>

\* --------------------------------------------------------------- Navigator
PagePaths == {pages[i].path : i \in DOMAIN pages}
PageOf(p) == (CHOOSE i \in DOMAIN pages : pages[i].path = p)
PageAt(p) == pages[PageOf(p)].page
Registered == {pages[i].page : i \in DOMAIN pages}

\* `not self.default_page`
Falsy(x) == x = None \/ x = ""

\* self.pages[path] = page: a new key goes last, an old key keeps its place
PutPage(ps, p, w) ==
    IF \E i \in DOMAIN ps : ps[i].path = p
    THEN [i \in DOMAIN ps |-> IF ps[i].path = p THEN [path |-> p, page |-> w] ELSE ps[i]]
    ELSE Append(ps, [path |-> p, page |-> w])

\* page_class(path=path, title=title)
Construct(h, cls, w, p, title) ==
    IF cls = "HomePage" THEN NewHomePage(h, w, Id(nextId + 1), p, title)
    ELSE NewPage(h, w, p, title)

NodesOf(cls) == IF cls = "HomePage" THEN 2 ELSE 1

\* a register_page that leaves the new page as its constructor made it
RegisterPageShown(h, cls, w, p, title) == Add(Construct(h, cls, w, p, title), RootId, w)

Navigator_register_page(h, cls, w, p, title) ==
    SetProperty(Add(Construct(h, cls, w, p, title), RootId, w), w, "visible", PyFalse)

RegisterPage(p, cls, title) ==
    LET w == Id(nextId)
    IN  /\ nextId + NodesOf(cls) <= MaxNodes
        /\ nextId' = nextId + NodesOf(cls)
        /\ kind' = IF cls = "HomePage"
                   THEN (w :> cls) @@ (Id(nextId + 1) :> "Label") @@ kind
                   ELSE (w :> cls) @@ kind
        /\ path' = (w :> p) @@ path
        /\ Store(Navigator_register_page(Heap, cls, w, p, title))
        /\ pages' = PutPage(pages, p, w)
        /\ default_page' = IF Falsy(default_page) THEN p ELSE default_page
        /\ last' = [op |-> "register_page", path |-> p, page |-> w]
        /\ UNCHANGED <<clients, current_page, history, nav, emitting, connecting>>

\* for page in self.pages.values(): page.set_property("visible", False)
RECURSIVE HideAll(_, _)
HideAll(h, ps) ==
    IF ps = <<>> THEN h
    ELSE HideAll(SetProperty(h, Head(ps).page, "visible", PyFalse), Tail(ps))

\* navigate_to between its two hooks: hide all, switch current_page, show it
ShowPage(h, target) == SetProperty(HideAll(h, pages), target, "visible", PyTrue)

\* a history that does not repeat its newest entry
PushHistoryOnce(hist, old_page) ==
    IF old_page # None /\ (hist = <<>> \/ hist[Len(hist)] # path[old_page])
    THEN Append(hist, path[old_page])
    ELSE hist

\* if old_page: self.history.append(old_page.path)
PushHistory(hist, old_page) ==
    IF old_page # None THEN Append(hist, path[old_page]) ELSE hist

NavigationRecord(p, cur, h) ==
    [action |-> "navigation", path |-> p, title |-> Get(h.props[cur], "title", "")]

PageWidgetsRecord(cur, h) ==
    [action |-> "page_widgets", page_path |-> path[cur],
     widgets |-> CollectWidgetStates(h, cur)]

\* Navigator._send_page_widgets
SendPageWidgets(h, cur) ==
    IF cur = None THEN h ELSE ScheduleUpdate(h, PageWidgetsRecord(cur, h))

\* navigate_to after its second hook: the two records, read from self.current_page
Announce(h, p, cur) == SendPageWidgets(ScheduleUpdate(h, NavigationRecord(p, cur, h)), cur)

\* a navigate_to that enqueues its records before it awaits on_navigation_to
NavSwitchAnnouncesFirst(p, hist, s2, resumed, opname, hooks) ==
    LET target == PageAt(p)
        h2 == ShowPage(Heap, target)
        info == [op |-> opname, path |-> p, found |-> TRUE, target |-> target,
                 hooks |-> Append(hooks, <<"to", target>>), q0 |-> Len(update_queue),
                 from |-> current_page]
    IN  /\ Len(PushHistory(hist, current_page)) <= MaxHistory
        /\ current_page' = target
        /\ history' = PushHistory(hist, current_page)
        /\ Store(Announce(h2, p, target))
        /\ IF s2
           THEN /\ resumed \/ nav = Idle
                /\ nav' = [pc |-> "to_hook", path |-> p, target |-> target]
                /\ last' = info @@ [phase |-> "to_hook"]
           ELSE /\ nav' = IF resumed THEN Idle ELSE nav
                /\ last' = info @@ [phase |-> "done"]
        /\ UNCHANGED <<NodeVars, emitting, connecting, clients, pages, default_page>>

\* From the visibility switch on.  resumed: the call was suspended in
\* on_navigation_from.  s2: the new page's on_navigation_to suspends.
NavSwitch(p, hist, s2, resumed, opname, hooks) ==
    LET target == PageAt(p)
        h2 == ShowPage(Heap, target)
        info == [op |-> opname, path |-> p, found |-> TRUE, target |-> target,
                 hooks |-> Append(hooks, <<"to", target>>), q0 |-> Len(update_queue),
                 from |-> current_page]
    IN  /\ Len(PushHistory(hist, current_page)) <= MaxHistory
        /\ current_page' = target
        /\ history' = PushHistory(hist, current_page)
        /\ IF s2
           THEN /\ resumed \/ nav = Idle
                /\ Store(h2)
                /\ nav' = [pc |-> "to_hook", path |-> p, target |-> target]
                /\ last' = info @@ [phase |-> "to_hook"]
           ELSE /\ Store(Announce(h2, p, target))
                /\ nav' = IF resumed THEN Idle ELSE nav
                /\ last' = info @@ [phase |-> "done"]
        /\ UNCHANGED <<NodeVars, emitting, connecting, clients, pages, default_page>>

\* a membership test that comes after the loop hiding every page
NavUnknownHides(p, hist, opname) ==
    /\ last' = [op |-> opname, path |-> p, found |-> FALSE, hooks |-> <<>>, phase |-> "done"]
    /\ history' = hist
    /\ Store(HideAll(Heap, pages))
    /\ UNCHANGED <<NodeVars, emitting, connecting, clients, pages, current_page, default_page, nav>>

\* if path not in self.pages: print(...); return
NavUnknown(p, hist, opname) ==
    /\ last' = [op |-> opname, path |-> p, found |-> FALSE, hooks |-> <<>>, phase |-> "done"]
    /\ history' = hist
    /\ UNCHANGED <<NodeVars, emitting, connecting, HeapVars, clients, pages, current_page, default_page, nav>>

\* navigate_to(path) from its first line; hist is self.history as the call finds it.
\* s1: the current page's on_navigation_from suspends.
NavBegin(p, hist, s1, s2, opname) ==
    IF p \notin PagePaths
    THEN NavUnknown(p, hist, opname)
    ELSE IF current_page # None /\ s1
    THEN /\ nav = Idle
         /\ nav' = [pc |-> "from_hook", path |-> p, target |-> None]
         /\ history' = hist
         /\ last' = [op |-> opname, path |-> p, found |-> TRUE,
                     hooks |-> <<<<"from", current_page>>>>, phase |-> "from_hook"]
         /\ UNCHANGED <<NodeVars, emitting, connecting, HeapVars, clients, pages, current_page, default_page>>
    ELSE NavSwitch(p, hist, s2, FALSE, opname,
                   IF current_page # None THEN <<<<"from", current_page>>>> ELSE <<>>)

\* await navigator.navigate_to(path)
NavigateTo(p, s1, s2) == NavBegin(p, history, s1, s2, "navigate_to")

\* on_navigation_from returned: the call goes on from the visibility switch
NavResumeFrom(s2) ==
    /\ nav.pc = "from_hook"
    /\ NavSwitch(nav.path, history, s2, TRUE, "navigate_to_resume", <<>>)

\* on_navigation_to returned: the call enqueues its two records and returns
NavResumeTo ==
    /\ nav.pc = "to_hook"
    /\ Store(Announce(Heap, nav.path, current_page))
    /\ nav' = Idle
    /\ last' = [op |-> "navigate_to_resume", path |-> nav.path, found |-> TRUE,
                target |-> nav.target, hooks |-> <<>>, q0 |-> Len(update_queue),
                from |-> current_page, phase |-> "done"]
    /\ UNCHANGED <<NodeVars, emitting, connecting, clients, pages, current_page, default_page, history>>

\* a navigate_back that pops one entry and goes to it
NavigateBackOne(s1, s2) ==
    IF Len(history) > 1
    THEN NavBegin(history[Len(history)], SubSeq(history, 1, Len(history) - 1),
                  s1, s2, "navigate_back")
    ELSE /\ last' = [op |-> "navigate_back", path |-> None, found |-> FALSE,
                     hooks |-> <<>>, phase |-> "done"]
         /\ UNCHANGED <<NodeVars, emitting, connecting, HeapVars, clients, NavVars>>

\* await navigator.navigate_back()
NavigateBack(s1, s2) ==
    IF Len(history) > 1
    THEN NavBegin(history[Len(history) - 1], SubSeq(history, 1, Len(history) - 2),
                  s1, s2, "navigate_back")
    ELSE /\ last' = [op |-> "navigate_back", path |-> None, found |-> FALSE,
                     hooks |-> <<>>, phase |-> "done"]
         /\ UNCHANGED <<NodeVars, emitting, connecting, HeapVars, clients, NavVars>>

\* Navigator.set_default_page: a path that is not registered raises ValueError
SetDefaultPage(p) ==
    /\ default_page' = IF p \in PagePaths THEN p ELSE default_page
    /\ last' = [op |-> "set_default_page", path |-> p, raised |-> p \notin PagePaths]
    /\ UNCHANGED <<NodeVars, emitting, connecting, HeapVars, clients, pages, current_page, history, nav>>

\* the first definition of initialize, which the class body replaces: it has no
\* else branch
InitializeSilent(d) == FALSE

\* the definition of initialize the class ends up with:
\* if self.default_page: ... else: raise ValueError("No default page set ...")
InitializeRaises(d) == Falsy(d)

\* await navigator.initialize()
Initialize(s1, s2) ==
    IF ~Falsy(default_page)
    THEN NavBegin(default_page, history, s1, s2, "initialize")
    ELSE /\ last' = [op |-> "initialize", path |-> None, found |-> FALSE, hooks |-> <<>>,
                     phase |-> "done", raised |-> InitializeRaises(default_page)]
         /\ UNCHANGED <<NodeVars, emitting, connecting, HeapVars, clients, NavVars>>

\* ------------------------------------------------------ Signal and handlers
\* The application of examples/hello_world.py: a TextBox (name_input), a Label
\* (greeting) and a Button under the root.
NameInputId == "1"
GreetingId == "2"
ButtonId == "3"
UnknownId == "9"

\* The subscribers an application connects: one that returns at once, one that
\* copies the name into the greeting (on_name_changed), one that does so and
\* then raises.  A subscriber runs to its end without suspending.
HandlerKinds == {"ok", "echo", "fail"}

RunHandler(h, hk) ==
    IF hk = "ok" THEN h
    ELSE SetProperty(h, GreetingId, "text", Get(h.props[NameInputId], "value", ""))

Raises(hk) == hk = "fail"

\* TextBox(initial_value, placeholder), Button(text)
NewTextBox(h, w, value, placeholder) ==
    SetProperty(SetProperty(SetProperty(NewWidget(h, w), w, "type", "TextBox"),
                            w, "value", value), w, "placeholder", placeholder)

NewButton(h, w, text) ==
    SetProperty(SetProperty(NewWidget(h, w), w, "type", "Button"), w, "text", text)

\* signal.connect(handler)
Signal_connect(h, w, sig, hk) == [h EXCEPT !.handlers[w][sig] = Append(@, hk)]

\* signal.disconnect(handler)
Signal_disconnect(h, w, sig, hk) ==
    IF hk \in Range(h.handlers[w][sig])
    THEN [h EXCEPT !.handlers[w][sig] = RemoveFirst(@, hk)]
    ELSE h

\* The outcome of a dispatch: the objects after it, and history: the subscribers
\* invoked with the value each saw in the sender, the emit calls made, and
\* whether a subscriber raised.
Outcome(h) == [heap |-> h, ran |-> <<>>, emits |-> <<>>, raised |-> FALSE]

\* an emit that notes a subscriber's failure and goes on with the next subscriber
RECURSIVE EmitContinues(_, _, _, _)
EmitContinues(r, w, hs, data) ==
    IF hs = <<>> THEN r
    ELSE LET r1 == [r EXCEPT !.heap = RunHandler(@, Head(hs)),
                             !.ran = Append(@, [kind |-> Head(hs), data |-> data,
                                                saw |-> Get(r.heap.props[w], "value", None)]),
                             !.raised = @ \/ Raises(Head(hs))]
         IN  EmitContinues(r1, w, Tail(hs), data)

\* Signal.emit: for handler in self.handlers: await handler(event)
RECURSIVE Emit(_, _, _, _)
Emit(r, w, hs, data) ==
    IF hs = <<>> THEN r
    ELSE LET r1 == [r EXCEPT !.heap = RunHandler(@, Head(hs)),
                             !.ran = Append(@, [kind |-> Head(hs), data |-> data,
                                                saw |-> Get(r.heap.props[w], "value", None)])]
         IN  IF Raises(Head(hs)) THEN [r1 EXCEPT !.raised = TRUE]
             ELSE Emit(r1, w, Tail(hs), data)

\* await self.on_<sig>.emit(Event(self, sig, data))
EmitSignal(r, w, sig, data) ==
    Emit([r EXCEPT !.emits = Append(@, [signal |-> sig, data |-> data])],
         w, r.heap.handlers[w][sig], data)

\* Signal.emit with subscribers that suspend.  A "slow" subscriber awaits
\* something, is resumed by the event loop and then copies the name into the
\* greeting; an "ok" and an "echo" subscriber return at once.
SlowKinds == {"ok", "echo", "slow"}

Suspends(hk) == hk = "slow"

\* Subscribers that change the list of the Signal that invokes them: "once"
\* disconnects itself, "adder" connects the subscriber "late", which returns at
\* once.
MutatingKinds == {"ok", "once", "adder", "slow"}

\* await handler(event), from where the subscriber last stopped to its end
RunSubscriber(h, w, sig, hk) ==
    IF hk = "once" THEN Signal_disconnect(h, w, sig, hk)
    ELSE IF hk = "adder" THEN Signal_connect(h, w, sig, "late")
    ELSE IF hk = "late" THEN h
    ELSE RunHandler(h, hk)

\* an emit that starts each subscriber as a task of its own and goes on
EmitSpawns(hk) == FALSE

\* await handler(event): the emit goes on when the subscriber has returned
Awaited(hk) == TRUE

\* for handler in self.handlers, from the k-th on, until a subscriber that is
\* awaited suspends.  e: the objects and the emit's state.  The loop reads the
\* list it iterates at every turn, so a subscriber connected meanwhile is met.
RECURSIVE EmitLoop(_, _)
EmitLoop(e, k) ==
    LET hs == e.heap.handlers[e.em.w][e.em.sig]
    IN  IF k > Len(hs) THEN [e EXCEPT !.em.waiting = 0]
        ELSE LET started == [e EXCEPT !.em.log = Append(@, <<"start", k>>),
                                      !.em.ran = Append(@, hs[k])]
             IN  IF Suspends(hs[k])
                 THEN LET s == [started EXCEPT !.em.pending = @ \cup {k}]
                      IN  IF Awaited(hs[k]) THEN [s EXCEPT !.em.waiting = k]
                          ELSE EmitLoop(s, k + 1)
                 ELSE EmitLoop([started EXCEPT
                                    !.heap = RunSubscriber(@, e.em.w, e.em.sig, hs[k]),
                                               !.em.log = Append(@, <<"end", k>>)], k + 1)

EmitDone(em) == em.waiting = 0 /\ em.pending = {}

\* the emit's state is kept while a subscriber is suspended
EmitStore(e, opname) ==
    /\ Store(e.heap)
    /\ emitting' = IF EmitDone(e.em) THEN NoEmit ELSE e.em
    /\ last' = [op |-> opname, w |-> e.em.w, sig |-> e.em.sig, log |-> e.em.log,
                subs |-> e.em.subs, ran |-> e.em.ran, done |-> EmitDone(e.em)]
    /\ UNCHANGED <<NodeVars, connecting, clients, NavVars>>

\* await self.on_<sig>.emit(event), as Widget.handle_event calls it for a click
EmitBegin(w, sig) ==
    /\ EmitDone(emitting)
    /\ EmitStore(EmitLoop([heap |-> Heap,
                           em |-> [NoEmit EXCEPT !.w = w, !.sig = sig,
                                                 !.subs = handlers[w][sig]]], 1),
                 "emit")

\* the event loop resumes the suspended subscriber k: it runs to its end, and the
\* emit that awaits it goes on with the next subscriber
EmitResume(k) ==
    /\ k \in emitting.pending
    /\ LET e == [heap |-> RunSubscriber(Heap, emitting.w, emitting.sig, emitting.ran[k]),
                 em |-> [emitting EXCEPT !.pending = @ \ {k},
                                         !.log = Append(@, <<"end", k>>)]]
       IN  EmitStore(IF emitting.waiting = k THEN EmitLoop(e, k + 1) ELSE e, "emit_resume")

\* ------------------------------------------------- Application: inbound events
\* Widget.handle_event
Widget_handle_event(h, w, type, data) ==
    IF type = "click" THEN EmitSignal(Outcome(h), w, "click", data)
    ELSE IF type = "change"
    THEN EmitSignal(Outcome(IF "value" \in DOMAIN data
                            THEN SetProperty(h, w, "value", data["value"])
                            ELSE h),
                    w, "change", data)
    ELSE Outcome(h)

\* a TextBox that notifies its subscribers before it takes the value
TextBox_emits_first(h, w, type, data) ==
    IF type = "change" /\ "value" \in DOMAIN data
    THEN LET r == EmitSignal(Outcome(h), w, "change", data)
         IN  [r EXCEPT !.heap = SetProperty(@, w, "value", data["value"])]
    ELSE Outcome(h)

\* TextBox.handle_event
TextBox_handle_event(h, w, type, data) ==
    IF type = "change" /\ "value" \in DOMAIN data
    THEN EmitSignal(Outcome(SetProperty(h, w, "value", data["value"])), w, "change", data)
    ELSE Outcome(h)

\* widget.handle_event(event_type, event_value), by the widget's class
HandleEvent(h, w, type, data) ==
    IF kind[w] = "TextBox" THEN TextBox_handle_event(h, w, type, data)
    ELSE Widget_handle_event(h, w, type, data)

\* an except clause that re-raises
Reraised(raised) == raised

\* try: await widget.handle_event(...) except Exception as e: print(...)
Propagates(raised) == FALSE

\* an else branch that reports the unknown id to the clients
NotFoundReported(h, e) == ScheduleUpdate(h, [action |-> "error", id |-> e.id])

\* else: print(f"Widget not found: {widget_id}")
NotFound(h, e) == h

\* {"event": {"id": "navigation", "type": "navigate", "data": {"path": p}}}
NavigationEvents ==
    {[id |-> NavigationId, type |-> "navigate", data |-> [path |-> p]] : p \in {"about"}}

\* the events a client sends about the widgets, one with an id nobody has
WidgetEvents ==
    {[id |-> w, type |-> "change", data |-> d] :
        w \in {NameInputId, ButtonId}, d \in {[value |-> "a"], [checked |-> "a"]}}
    \cup {[id |-> w, type |-> "click", data |-> [checked |-> "a"]] :
              w \in {NameInputId, ButtonId}}
    \cup {[id |-> UnknownId, type |-> "change", data |-> [value |-> "a"]]}

\* await app.handle_client_message({"event": e})
HandleClientMessage(e) ==
    /\ Len(update_queue) <= MaxBacklog
    /\ IF e.id \in widgets
       THEN LET r == HandleEvent(Heap, e.id, e.type, e.data)
            IN  /\ Store(r.heap)
                /\ last' = [op |-> "handle_client_message", event |-> e,
                            q0 |-> Len(update_queue), found |-> TRUE, ran |-> r.ran,
                            emits |-> r.emits, raised |-> r.raised,
                            propagated |-> Propagates(r.raised)]
       ELSE /\ Store(NotFound(Heap, e))
            /\ last' = [op |-> "handle_client_message", event |-> e,
                        q0 |-> Len(update_queue), found |-> FALSE, ran |-> <<>>,
                        emits |-> <<>>, raised |-> FALSE, propagated |-> FALSE]
    /\ UNCHANGED <<NodeVars, emitting, connecting, clients, NavVars>>

\* name_input.on_change.connect(h) / button.on_click.connect(h), by the application
SignalConnect(w, sig, hk) ==
    /\ Len(handlers[w][sig]) < MaxHandlers
    /\ Store(Signal_connect(Heap, w, sig, hk))
    /\ last' = [op |-> "connect_handler"]
    /\ UNCHANGED <<NodeVars, emitting, connecting, clients, NavVars>>

\* -------------------------------------------------------------------- Next
\* the event loop runs the flush task
FlushStep ==
    \/ \E i \in DOMAIN tasks : ProcessUpdatesResume(i)
    \/ \E i \in DOMAIN tasks : ProcessUpdatesFinish(i)

\* The Navigator and the inbound messages of one connection.
Next ==
    \/ FlushStep
    \/ \E r \in Registrations : RegisterPage(r.path, r.cls, r.title)
    \/ \E p \in Paths \cup {UnknownPath}, s1 \in BOOLEAN, s2 \in BOOLEAN : NavigateTo(p, s1, s2)
    \/ \E s2 \in BOOLEAN : NavResumeFrom(s2)
    \/ NavResumeTo
    \/ \E s1 \in BOOLEAN, s2 \in BOOLEAN : NavigateBack(s1, s2)
    \/ \E e \in NavigationEvents : HandleClientMessage(e)

Spec == InitConnected /\ [][Next]_vars

\* Application code that sets properties of the root while clients connect, the
\* flush task runs and its sends succeed or fail.
FlushNext ==
    \/ FlushStep
    \/ \E c \in Clients : ConnectClient(c)
    \/ \E c \in Clients : DisconnectClient(c)
    \/ \E v \in TextValues : SetPropertyCall(RootId, "text", v)
    \/ \E i \in DOMAIN tasks : ProcessUpdatesFail(i)

FlushSpec == Init /\ [][FlushNext]_vars

\* the flush task is run by the event loop, and the sends it awaits complete
FairFlushSpec == Init /\ [][FlushNext]_vars /\ WF_vars(FlushStep)

\* The application of examples/hello_world.py after construction, its client
\* connected: the three widgets are added to the root.
HelloHeap ==
    LET h1 == Add(NewTextBox(NewRoot(EmptyHeap), NameInputId, "", "Your name"),
                  RootId, NameInputId)
        h2 == Add(NewLabel(h1, GreetingId, ""), RootId, GreetingId)
    IN  Add(NewButton(h2, ButtonId, "Say Hello"), RootId, ButtonId)

InitHello ==
    /\ clients = Clients
    /\ nextId = 4
    /\ kind = (RootId :> "RootContainer" @@ NameInputId :> "TextBox"
                @@ GreetingId :> "Label" @@ ButtonId :> "Button")
    /\ path = <<>>
    /\ parent = HelloHeap.parent
    /\ children = HelloHeap.children
    /\ app = HelloHeap.app
    /\ props = HelloHeap.props
    /\ handlers = HelloHeap.handlers
    /\ widgets = HelloHeap.widgets
    /\ update_queue = HelloHeap.update_queue
    /\ tasks = HelloHeap.tasks
    /\ calls = HelloHeap.calls
    /\ qinfo = [conn |-> FALSE, sent |-> 0]
    /\ pages = <<>>
    /\ current_page = None
    /\ default_page = None
    /\ history = <<>>
    /\ nav = Idle
    /\ emitting = NoEmit
    /\ connecting = {}
    /\ last = [op |-> "init"]

\* The client's events reach the widgets while the application connects
\* subscribers and the flush task runs.
EventNext ==
    \/ FlushStep
    \/ \E hk \in HandlerKinds : SignalConnect(NameInputId, "change", hk)
    \/ SignalConnect(ButtonId, "click", "echo")
    \/ \E e \in WidgetEvents : HandleClientMessage(e)

EventSpec == InitHello /\ [][EventNext]_vars

\* Application code that navigates and then, while the page's snapshot waits in
\* the queue, changes the widgets of its pages: it sets a Label's text and moves
\* Labels in and out of pages.
PageIds == {w \in NodeIds : kind[w] \in {"Page", "HomePage"}}
LabelIds == {w \in NodeIds : kind[w] = "Label"}

SnapshotQueued == \E k \in DOMAIN update_queue : update_queue[k].action = "page_widgets"

SnapshotNext ==
    \/ FlushStep
    \/ pages = <<>> /\ \E r \in {x \in Registrations : x.cls = "HomePage"} :
                          RegisterPage(r.path, r.cls, r.title)
    \/ \E p \in PagePaths, s2 \in BOOLEAN : NavigateTo(p, FALSE, s2)
    \/ NavResumeTo
    \/ SnapshotQueued /\ \E w \in LabelIds : SetPropertyCall(w, "text", "b")
    \/ SnapshotQueued /\ \E p \in PageIds, c \in LabelIds : AddCall(p, c)
    \/ SnapshotQueued /\ \E p \in PageIds, c \in LabelIds : RemoveCall(p, c)

SnapshotSpec == InitConnected /\ [][SnapshotNext]_vars

\* Application code that registers pages and detaches widgets.
TreeNext ==
    \/ FlushStep
    \/ \E c \in Clients : ConnectClient(c)
    \/ \E r \in Registrations : RegisterPage(r.path, r.cls, r.title)
    \/ \E p \in NodeIds, c \in NodeIds : RemoveCall(p, c)

TreeSpec == Init /\ [][TreeNext]_vars

\* Application code that builds a tree out of two Containers, constructed and
\* attached to nothing, and the root: it adds any widget under any widget, itself
\* included, and removes any widget from any widget.
ContainerIds == {"1", "2"}

\* Container()
NewContainer(h, w) == SetProperty(NewWidget(h, w), w, "type", "Container")

WidgetHeap == NewContainer(NewContainer(NewRoot(EmptyHeap), "1"), "2")

InitWidgets ==
    /\ clients = Clients
    /\ nextId = 3
    /\ kind = (RootId :> "RootContainer") @@ [w \in ContainerIds |-> "Container"]
    /\ path = <<>>
    /\ parent = WidgetHeap.parent
    /\ children = WidgetHeap.children
    /\ app = WidgetHeap.app
    /\ props = WidgetHeap.props
    /\ handlers = WidgetHeap.handlers
    /\ widgets = WidgetHeap.widgets
    /\ update_queue = WidgetHeap.update_queue
    /\ tasks = WidgetHeap.tasks
    /\ calls = WidgetHeap.calls
    /\ qinfo = [conn |-> FALSE, sent |-> 0]
    /\ pages = <<>>
    /\ current_page = None
    /\ default_page = None
    /\ history = <<>>
    /\ nav = Idle
    /\ emitting = NoEmit
    /\ connecting = {}
    /\ last = [op |-> "init"]

WidgetNext ==
    \/ FlushStep
    \/ Len(update_queue) <= MaxBacklog /\ \E p \in NodeIds, c \in NodeIds : AddCall(p, c)
    \/ Len(update_queue) <= MaxBacklog /\ \E p \in NodeIds, c \in NodeIds : RemoveCall(p, c)

WidgetSpec == InitWidgets /\ [][WidgetNext]_vars

\* The application starts: it registers its pages, may choose the default page,
\* and initializes the Navigator, before or after it has done so.
StartNext ==
    \/ FlushStep
    \/ \E r \in Registrations : RegisterPage(r.path, r.cls, r.title)
    \/ \E p \in Paths \cup {UnknownPath} : SetDefaultPage(p)
    \/ \E s1 \in BOOLEAN, s2 \in BOOLEAN : Initialize(s1, s2)
    \/ \E s2 \in BOOLEAN : NavResumeFrom(s2)
    \/ NavResumeTo

StartSpec == InitConnected /\ [][StartNext]_vars

\* The Button of hello_world.py is clicked while the application connects
\* subscribers, some of which suspend, to its click Signal.
EmitNext ==
    \/ FlushStep
    \/ \E hk \in SlowKinds : SignalConnect(ButtonId, "click", hk)
    \/ Len(update_queue) <= MaxBacklog /\ EmitBegin(ButtonId, "click")
    \/ \E k \in 1..MaxHandlers : EmitResume(k)

EmitSpec == InitHello /\ [][EmitNext]_vars

\* The Button is clicked while its click Signal has subscribers that connect
\* and disconnect subscribers of that Signal; the list holds one subscriber more
\* than the application connects, the one an "adder" connects.
SubscriberNext ==
    \/ FlushStep
    \/ \E hk \in MutatingKinds : SignalConnect(ButtonId, "click", hk)
    \/ /\ Len(update_queue) <= MaxBacklog
       /\ EmitBegin(ButtonId, "click")
       /\ Len(handlers'[ButtonId]["click"]) <= MaxHandlers + 1
    \/ \E k \in 1..(MaxHandlers + 1) :
           EmitResume(k) /\ Len(handlers'[ButtonId]["click"]) <= MaxHandlers + 1

SubscriberSpec == InitHello /\ [][SubscriberNext]_vars

\* A client connects, its initial-state send taking its time, while the flush
\* task that Application.__init__ scheduled runs and the application sets
\* properties of the root; a client that is connected may disconnect.
ConnectNext ==
    \/ FlushStep
    \/ \E c \in Clients : ConnectClientBegin(c)
    \/ \E c \in Clients : ConnectClientSent(c)
    \/ \E c \in Clients \ connecting : DisconnectClient(c)
    \/ SetPropertyCall(RootId, "text", "a")

ConnectSpec == Init /\ [][ConnectNext]_vars

\* The application of hello_world.py puts the greeting under the button, takes
\* widgets out of the tree, and goes on setting their properties while the
\* client clicks the button.
DetachNext ==
    \/ FlushStep
    \/ Len(update_queue) <= MaxBacklog /\ AddCall(ButtonId, GreetingId)
    \/ /\ Len(update_queue) <= MaxBacklog
       /\ \E p \in {RootId, ButtonId}, c \in {ButtonId, GreetingId} : RemoveCall(p, c)
    \/ /\ Len(update_queue) <= MaxBacklog
       /\ \E w \in {GreetingId, ButtonId} : SetPropertyCall(w, "text", "b")
    \/ SignalConnect(ButtonId, "click", "echo")
    \/ \E e \in {x \in WidgetEvents : x.id = ButtonId /\ x.type = "click"} :
           HandleClientMessage(e)

DetachSpec == InitHello /\ [][DetachNext]_vars

\* ------------------------------------------------------------------ claims
IsUpdate(r) == r.action = "update"
Updates(q) == SelectSeq(q, IsUpdate)
Sending == {i \in DOMAIN tasks : tasks[i].pc = "sending"}
LiveTasks == {i \in DOMAIN tasks : tasks[i].pc # "done"}

\* C1: the update records of a batch are exactly the set_property calls made on
\* attached widgets since the previous queue swap, one record per call and in
\* call order, a call that repeats the property's value included; the same holds
\* of the records still queued.
C1_UpdatesInCallOrder ==
    /\ Updates(update_queue) = calls
    /\ \A i \in Sending : Updates(tasks[i].batch) = tasks[i].calls

\* a batch on its way that carries a repeated call next to a different one
C1_Witness ==
    \E i \in Sending :
        /\ Len(tasks[i].calls) >= 3
        /\ \E k \in 1..(Len(tasks[i].calls) - 1) :
               /\ tasks[i].calls[k] = tasks[i].calls[k + 1]
               /\ tasks[i].calls[k].property = "text"
        /\ \E k \in 1..(Len(tasks[i].calls) - 1) :
               /\ tasks[i].calls[k] # tasks[i].calls[k + 1]
               /\ tasks[i].calls[k].property = "text"
               /\ tasks[i].calls[k + 1].property = "text"

\* C6 as stated: a record appended while a client is connected is eventually sent
\* (it leaves the queue in a batch) unless the client disconnects, with no further
\* enqueue needed.
QueuedWhileConnected == qinfo.conn
C6_EventuallySent ==
    [](QueuedWhileConnected /\ clients # {} => <>(~QueuedWhileConnected \/ clients = {}))

\* C9: remove(child) on an attached parent appends the one record
\* {action: remove, id: child} and nothing else; remove of a widget that is not a
\* child changes nothing.
C9_RemoveOneRecord ==
    [][last'.op = "remove" =>
          IF last'.was_child
          THEN /\ last'.attached => update_queue' = Append(update_queue, RemoveRecord(last'.child))
               /\ children' = [children EXCEPT ![last'.parent] = RemoveFirst(@, last'.child)]
               /\ parent' = [parent EXCEPT ![last'.child] = None]
               /\ UNCHANGED <<props, app, widgets>>
          ELSE UNCHANGED <<NodeVars, emitting, connecting, HeapVars, clients, NavVars>>]_vars

\* a page with a child of its own has just been removed from the attached root
C9_Witness ==
    /\ last.op = "remove" /\ last.was_child /\ last.attached
    /\ children[last.child] # <<>>
    /\ update_queue # <<>>
    /\ update_queue[Len(update_queue)] = RemoveRecord(last.child)

\* C10: at most one flush task is scheduled or running, and a batch never
\* carries a record that an earlier batch carried.
C10_OneFlushInFlight ==
    /\ Cardinality(LiveTasks) <= 1
    /\ \A i \in Sending : ~tasks[i].stale

\* records were enqueued while the one task awaits its sends
C10_Witness ==
    /\ Sending # {}
    /\ update_queue # <<>>
    /\ last.op = "set_property"

IsPage(w) == kind[w] \in {"Page", "HomePage"}
VisibleIn(pr) == {w \in DOMAIN pr : Get(pr[w], "visible", PyFalse) = PyTrue}
VisiblePages == {w \in VisibleIn(props) : IsPage(w)}

RECURSIVE SubtreeOf(_)
SubtreeOf(w) == {w} \cup UNION {SubtreeOf(children[w][k]) : k \in DOMAIN children[w]}

NavigateToDone ==
    /\ last.op \in {"navigate_to", "navigate_to_resume"}
    /\ last.found
    /\ last.phase = "done"

\* C2 as stated: when navigate_to(p) has completed for a registered p, the page
\* registered under p is the one visible registered page and it is current_page.
C2_NavigateToShowsTarget ==
    NavigateToDone =>
        /\ current_page = PageAt(last.path)
        /\ VisiblePages \cap Registered = {PageAt(last.path)}

\* C3: navigate_to with a path that is not registered invokes no hook and
\* changes nothing of the Navigator, the widgets or the queue.
C3_UnknownPathNoChange ==
    [][last'.op = "navigate_to" /\ ~last'.found =>
          /\ last'.hooks = <<>>
          /\ UNCHANGED <<NodeVars, emitting, connecting, HeapVars, clients, NavVars>>]_vars

\* an unknown path was asked for while a page is shown and records are queued
C3_Witness ==
    /\ last.op = "navigate_to" /\ ~last.found /\ last.path \notin PagePaths
    /\ current_page # None
    /\ VisiblePages # {}
    /\ history # <<>>
    /\ update_queue # <<>>

\* C4 as stated: once a navigation has switched pages, at most one Page of the
\* tree has visible == true.
C4_AtMostOneVisiblePage ==
    current_page # None => Cardinality(VisiblePages \cap SubtreeOf(RootId)) <= 1

\* C5 as stated: navigate_back() called after navigate_to(A), navigate_to(B) on a
\* fresh Navigator (history = <<A>>, B current) ends with A the only visible page
\* and current_page the page registered as A.
C5_RoundTrip ==
    [][(/\ last'.op = "navigate_back" /\ last'.phase = "done"
        /\ nav = Idle
        /\ Len(history) = 1
        /\ current_page # None
        /\ current_page \in Registered
        /\ path[current_page] # history[1]) =>
          /\ current_page' = PageAt(history[1])
          /\ VisibleIn(props') = {PageAt(history[1])}]_vars

\* C7 as stated: the message {"event": {"id": "navigation", "type": "navigate",
\* "data": {"path": p}}} with p registered puts a navigation record for p and,
\* right after it, a page_widgets record for p on the queue.
C7_NavigationMessageForwarded ==
    (/\ last.op = "handle_client_message"
     /\ last.event.id = NavigationId
     /\ last.event.type = "navigate"
     /\ last.event.data["path"] \in PagePaths) =>
        \E k \in (last.q0 + 1)..(Len(update_queue) - 1) :
            /\ update_queue[k].action = "navigation"
            /\ update_queue[k].path = last.event.data["path"]
            /\ update_queue[k + 1].action = "page_widgets"
            /\ update_queue[k + 1].page_path = last.event.data["path"]

\* C8 as stated: a completed navigate_to(p) has appended, last and next to each
\* other, the navigation record {path: p, title: the title of the page it made
\* visible} and the page_widgets record with the snapshots of that page's
\* subtree, after the visible updates it produced.
C8_AnnouncesTarget ==
    (last.op \in {"navigate_to", "navigate_to_resume", "navigate_back"}
        /\ last.found /\ last.phase = "done") =>
        LET n == Len(update_queue)
        IN  /\ n >= last.q0 + 2
            /\ update_queue[n - 1] =
                   [action |-> "navigation", path |-> last.path,
                    title |-> Get(props[last.target], "title", "")]
            /\ update_queue[n].action = "page_widgets"
            /\ update_queue[n].widgets = CollectWidgetStates(Heap, last.target)
            /\ \A k \in (last.q0 + 1)..(n - 2) :
                   /\ update_queue[k].action = "update"
                   /\ update_queue[k].property = "visible"

IsPrefix(s, t) == Len(s) <= Len(t) /\ SubSeq(t, 1, Len(s)) = s
IsSuffix(s, t) == Len(s) <= Len(t) /\ SubSeq(t, Len(t) - Len(s) + 1, Len(t)) = s

\* C11: every record enqueued between the creation of a flush task and its
\* resumption after the one yield is in the one message the task sends, as the
\* tail of the batch and in order; until then they are the tail of the queue.
C11_WindowInOneBatch ==
    /\ last.op = "process_updates_swap" =>
           /\ last.window # <<>>
           /\ \E i \in Sending : IsSuffix(last.window, tasks[i].batch)
    /\ \A i \in LiveTasks \ Sending :
           tasks[i].window # <<>> /\ IsSuffix(tasks[i].window, update_queue)

\* a batch with three records of its task's window after an older record
C11_Witness ==
    /\ last.op = "process_updates_swap"
    /\ Len(last.window) >= 3
    /\ \E i \in Sending : Len(tasks[i].batch) > Len(last.window)

\* C12: a flush that finds records and clients takes the whole queue, in order,
\* as its one message for exactly the clients connected then, and leaves the
\* queue empty, so that no record it leaves queued was in a batch.
C12_SwapTakesWholeQueue ==
    [][last'.op = "process_updates_swap" =>
          /\ update_queue # <<>> /\ clients # {}
          /\ update_queue' = <<>>
          /\ qinfo'.sent = 0
          /\ \E i \in DOMAIN tasks :
                 /\ tasks[i].pc = "scheduled"
                 /\ tasks' = [tasks EXCEPT ![i] = tasks'[i]]
                 /\ tasks'[i].pc = "sending"
                 /\ tasks'[i].batch = update_queue
                 /\ tasks'[i].to = clients]_vars

\* the swap has just taken several records for the connected client
C12_Witness ==
    /\ last.op = "process_updates_swap"
    /\ update_queue = <<>>
    /\ \E i \in Sending : Len(tasks[i].batch) >= 2 /\ tasks[i].to = Clients

\* C13: a flush that resumes with an empty queue or with no client sends
\* nothing and leaves the queue as it is; while no client is connected the queue
\* only grows at its end.
C13_NothingSentKeepsQueue ==
    [][/\ (last'.op \in {"process_updates_return", "process_updates_swap"}
              /\ (update_queue = <<>> \/ clients = {})) =>
           /\ update_queue' = update_queue
           /\ \A i \in DOMAIN tasks' : tasks'[i].pc # "sending"
       /\ (clients = {} /\ clients' = {}) => IsPrefix(update_queue, update_queue')]_vars

\* a flush has just returned with records queued and nobody to send them to
C13_Witness ==
    /\ last.op = "process_updates_return"
    /\ clients = {}
    /\ Len(update_queue) >= 2
    /\ LiveTasks = {}

\* C14: when a send fails the task ends, the batch is not put back and nothing
\* is retried; the queue holds what was enqueued after the swap, and the next
\* enqueue finds no live task and creates one.
C14_FailedBatchDropped ==
    [][last'.op = "process_updates_failed" =>
          /\ update_queue' = update_queue
          /\ qinfo'.sent = 0
          /\ NoLiveTask(tasks')
          /\ \A i \in DOMAIN tasks' : tasks'[i].pc = "done"
          /\ UNCHANGED <<props, children, parent, widgets, clients>>]_vars

\* the send of a batch has just failed while later records wait in the queue
C14_Witness ==
    /\ last.op = "process_updates_failed"
    /\ update_queue # <<>>
    /\ clients # {}

HandledMessage == last.op = "handle_client_message" /\ last.found
Mirrored == last.event.type = "change" /\ "value" \in DOMAIN last.event.data
Writers(ran) == SelectSeq(ran, LAMBDA x : x.kind # "ok")

\* C15: when a subscriber raises during handle_client_message the exception
\* stops at the dispatch; the value mirrored from a change event is still in the
\* widget and in the queue, and so is every write the subscribers made up to
\* the raise, the raising subscriber's included.
C15_HandlerErrorContained ==
    (HandledMessage /\ last.raised) =>
        LET m == IF Mirrored THEN 1 ELSE 0
            n == Len(Writers(last.ran))
        IN  /\ ~last.propagated
            /\ last.ran[Len(last.ran)].kind = "fail"
            /\ Mirrored =>
                   /\ props[last.event.id]["value"] = last.event.data["value"]
                   /\ update_queue[last.q0 + 1] =
                          UpdateRecord(last.event.id, "value", last.event.data["value"])
            /\ Len(update_queue) = last.q0 + m + n
            /\ \A k \in 1..n :
                   update_queue[last.q0 + m + k] =
                       UpdateRecord(GreetingId, "text", Writers(last.ran)[k].saw)
            /\ props[GreetingId]["text"] = last.ran[Len(last.ran)].saw

\* the second subscriber of a change event raised after the first one had run
C15_Witness ==
    /\ HandledMessage /\ last.raised /\ Mirrored
    /\ Len(last.ran) = 2
    /\ last.ran[1].kind = "echo"
    /\ Len(update_queue) = last.q0 + 3

\* C16: a message for an id that is not registered runs no subscriber, emits
\* nothing, raises nothing and changes no widget, registry or queue state.
C16_UnknownIdDiscarded ==
    [][(last'.op = "handle_client_message" /\ ~last'.found) =>
          /\ last'.ran = <<>> /\ last'.emits = <<>>
          /\ ~last'.raised /\ ~last'.propagated
          /\ UNCHANGED <<NodeVars, emitting, connecting, HeapVars, clients, NavVars>>]_vars

\* an event for an unknown id arrived while subscribers were connected
C16_Witness ==
    /\ last.op = "handle_client_message" /\ ~last.found
    /\ last.event.id = UnknownId
    /\ handlers[NameInputId]["change"] # <<>>
    /\ props[NameInputId]["value"] = "a"

\* C17: a change event with value v for a TextBox leaves value == v, makes one
\* emit of the change signal with the event's data, and every subscriber
\* invoked finds the value already set.
C17_TextBoxChange ==
    (HandledMessage /\ kind[last.event.id] = "TextBox" /\ Mirrored) =>
        /\ props[last.event.id]["value"] = last.event.data["value"]
        /\ last.emits = <<[signal |-> "change", data |-> last.event.data]>>
        /\ \A k \in DOMAIN last.ran :
               /\ last.ran[k].saw = last.event.data["value"]
               /\ last.ran[k].data = last.event.data

\* the TextBox took a new value and two subscribers were told
C17_Witness ==
    /\ HandledMessage /\ kind[last.event.id] = "TextBox" /\ Mirrored
    /\ Len(last.ran) = 2
    /\ ~last.raised
    /\ update_queue[last.q0 + 1] = UpdateRecord(NameInputId, "value", "a")

\* C18: a snapshot that is in a queued record is sent with the properties and
\* children it had when it was taken: no step that leaves the record queued
\* (set_property, add, remove, navigation) changes what will be written for it.
C18_SnapshotsKeepTheirValues ==
    [][IsPrefix(update_queue, update_queue') =>
          \A k \in DOMAIN update_queue :
              DumpRecord(Heap', update_queue'[k]) = DumpRecord(Heap, update_queue[k])]_vars

SnapshotsIn(rec, w) ==
    IF rec.action = "page_widgets"
    THEN {rec.widgets[j] : j \in {i \in DOMAIN rec.widgets : rec.widgets[i].id = w}}
    ELSE {}
SnapshotOf(w) == UNION {SnapshotsIn(update_queue[k], w) : k \in DOMAIN update_queue}

\* queued snapshots differ from the live widgets: a page's properties were set
\* and its children changed after the snapshot was taken
C18_Witness ==
    /\ \E w \in NodeIds : \E sn \in SnapshotOf(w) : sn.properties # props[w]
    /\ \E w \in NodeIds : \E sn \in SnapshotOf(w) : sn.children # children[w]

\* C19: connect_client adds the client and sends the initial state to it
\* directly: the update queue and the flush tasks are as they were.
C19_ConnectBypassesQueue ==
    [][last'.op = "connect_client" =>
          /\ clients' = clients \cup {last'.client}
          /\ UNCHANGED <<update_queue, tasks>>
          /\ last'.initial = InitialStateMessage(Heap)]_vars

\* a client has just connected while records wait and no flush is scheduled
C19_Witness ==
    /\ last.op = "connect_client"
    /\ Len(update_queue) >= 2
    /\ LiveTasks = {}
    /\ last.initial # <<>>

HiddenPages == {w \in PageIds : Get(props[w], "visible", PyFalse) # PyTrue}
HiddenNodes == UNION {SubtreeOf(w) \ {w} : w \in HiddenPages}

\* C20 as stated: the initial-state message lists the root and no node that
\* lies under a page whose visible property is false.
C20_InitialStateVisibleOnly ==
    last.op = "connect_client" =>
        /\ \E k \in DOMAIN last.initial : last.initial[k].id = RootId
        /\ \A k \in DOMAIN last.initial : last.initial[k].id \notin HiddenNodes

\* the widgets that hold n in their children list, and how often p holds it
Holders(n) == {p \in NodeIds : n \in Range(children[p])}
Occurrences(p, n) == Cardinality({k \in DOMAIN children[p] : children[p][k] = n})

\* the widgets reached from the widgets of S by following children lists
RECURSIVE Closure(_, _)
Closure(S, k) ==
    IF k = 0 THEN S
    ELSE Closure(S \cup UNION {Range(children[n]) : n \in S}, k - 1)
Descendants(n) == Closure(Range(children[n]), Cardinality(NodeIds))
ReachableFromRoot == Closure({RootId}, Cardinality(NodeIds))

\* C21: after any sequence of add and remove calls a widget is in the children
\* list of at most one widget and at most once, and its parent is p exactly when
\* p's children list holds it; an add of a widget that has a parent takes it out
\* of the old parent's list first.
C21_OneParent ==
    /\ \A n \in NodeIds :
           /\ Cardinality(Holders(n)) <= 1
           /\ \A p \in NodeIds : Occurrences(p, n) <= 1
           /\ \A p \in NodeIds : (parent[n] = p) <=> (n \in Range(children[p]))
    /\ (last.op = "add" /\ last.from \notin {None, last.parent})
           => last.child \notin Range(children[last.from])

\* an add has moved a widget from one parent to another
C21_Witness ==
    /\ last.op = "add"
    /\ last.from \notin {None, last.parent, last.child}
    /\ last.parent # last.child
    /\ parent[last.child] = last.parent
    /\ children[last.from] # <<>>

\* C22 as stated: after any sequence of add and remove calls, an add of a widget
\* under itself or of an ancestor under its descendant included, no widget is
\* among its own descendants.
C22_Acyclic == \A n \in NodeIds : n \notin Descendants(n)

\* C23: every widget reached from the root through children lists is in the
\* registry and bound to the application; this holds of a subtree that was built
\* detached and then added.
C23_ReachableRegistered ==
    \A n \in ReachableFromRoot : n \in widgets /\ app[n]

\* a widget bound to no application, with a child of its own, has been added
\* under a widget of the tree
C23_Witness ==
    /\ last.op = "add"
    /\ last.fresh
    /\ ~last.raised
    /\ last.child \in ReachableFromRoot
    /\ children[last.child] # <<>>
    /\ Range(children[last.child]) \subseteq widgets

\* C24: navigate_back with at most one history entry changes nothing; with two or
\* more it takes the two newest entries off the history and navigates to the
\* older of the two.
C24_NavigateBack ==
    [][last'.op = "navigate_back" =>
          IF Len(history) <= 1
          THEN UNCHANGED <<NodeVars, emitting, connecting, HeapVars, clients, NavVars>>
          ELSE /\ last'.found
               /\ last'.path = history[Len(history) - 1]
               /\ IF last'.phase = "from_hook"
                  THEN /\ history' = SubSeq(history, 1, Len(history) - 2)
                       /\ nav'.path = history[Len(history) - 1]
                  ELSE /\ history' = PushHistory(SubSeq(history, 1, Len(history) - 2),
                                                 current_page)
                       /\ current_page' = PageAt(history[Len(history) - 1])]_vars

\* navigate_back has gone to a page other than the newest history entry
C24_Witness ==
    /\ last.op = "navigate_back"
    /\ last.found
    /\ last.phase = "done"
    /\ current_page = last.target
    /\ path[last.target] = last.path
    /\ last.from # None
    /\ history = <<path[last.from]>>
    /\ last.path # path[last.from]

\* C25: initialize navigates to the default path when one is set; when none is
\* set it raises an error and changes nothing of the Navigator or the Application.
C25_Initialize ==
    [][last'.op = "initialize" =>
          IF default_page # None
          THEN /\ last'.found
               /\ last'.path = default_page
               /\ IF last'.phase = "from_hook"
                  THEN nav'.path = default_page
                  ELSE /\ current_page' = PageAt(default_page)
                       /\ props'[PageAt(default_page)]["visible"] = PyTrue
          ELSE /\ last'.raised
               /\ UNCHANGED <<NodeVars, emitting, connecting, HeapVars, clients, NavVars>>]_vars

\* initialize has shown the default page, which is not the page registered first
C25_Witness ==
    /\ last.op = "initialize"
    /\ last.found
    /\ last.phase = "done"
    /\ last.path = default_page
    /\ current_page = PageAt(default_page)
    /\ pages[1].path # default_page

\* initialize has raised, no default page being set
C25_WitnessRaised ==
    /\ last.op = "initialize"
    /\ ~last.found
    /\ last.raised
    /\ default_page = None

\* the log of an emit that runs one subscriber at a time, in list order
Sequential(log) ==
    \A i \in DOMAIN log :
        log[i] = <<IF i % 2 = 1 THEN "start" ELSE "end", (i + 1) \div 2>>

\* C26: emit invokes the subscribers in connection order and awaits each to its
\* end before it starts the next: also when a subscriber suspends, no two
\* subscribers of one emit are under way together, and when the emit returns
\* every subscriber has run.
C26_OneSubscriberAtATime ==
    /\ Sequential(emitting.log)
    /\ Cardinality(emitting.pending) <= 1
    /\ last.op \in {"emit", "emit_resume"} =>
           /\ Sequential(last.log)
           /\ last.done => Len(last.log) = 2 * Len(handlers[last.w][last.sig])

\* an emit with two subscribers has returned, the first of which suspended
C26_Witness ==
    /\ last.op = "emit_resume"
    /\ last.done
    /\ Len(last.log) = 4
    /\ handlers[last.w][last.sig][1] = "slow"

\* C27 as stated: handle_event on a widget of any kind invokes every subscriber of
\* the Signal the event names: a click sent to a TextBox reaches its click
\* subscribers, and a change reaches the change subscribers whether or not its
\* data holds a value.
C27_EverySubscriberInvoked ==
    (/\ last.op = "handle_client_message"
     /\ last.found
     /\ last.event.type \in {"click", "change"}
     /\ ~last.raised)
        => /\ last.emits = <<[signal |-> last.event.type, data |-> last.event.data]>>
           /\ Len(last.ran) = Len(handlers[last.event.id][last.event.type])

\* the records a step has appended to the queue
Appended == SubSeq(update_queue', Len(update_queue) + 1, Len(update_queue'))
Actions(q) == [k \in DOMAIN q |-> q[k].action]

\* C28: navigate_to awaits the old page's on_navigation_from before it changes
\* any visible property, current_page or the history; it awaits the new page's
\* on_navigation_to after the visibility switch and the history push and before
\* it enqueues the navigation record.
C28_HookOrder ==
    [][/\ (last'.op = "navigate_to" /\ last'.found /\ last'.phase = "from_hook")
           => /\ current_page # None
              /\ last'.hooks = <<<<"from", current_page>>>>
              /\ UNCHANGED <<HeapVars, pages, current_page, history>>
       /\ (last'.op \in {"navigate_to", "navigate_to_resume"} /\ last'.found
              /\ last'.phase = "to_hook")
           => /\ last'.hooks[Len(last'.hooks)] = <<"to", last'.target>>
              /\ current_page' = last'.target
              /\ VisiblePages' \cap Registered = {last'.target}
              /\ history' = PushHistory(history, current_page)
              /\ \A k \in DOMAIN Appended : Appended[k].action = "update"
       /\ (last'.op = "navigate_to" /\ last'.found /\ last'.phase = "done")
           => /\ last'.hooks = (IF current_page # None THEN <<<<"from", current_page>>>>
                                 ELSE <<>>) \o <<<<"to", last'.target>>>>
              /\ Len(Appended) >= 2
              /\ \A k \in DOMAIN Appended :
                     Appended[k].action = (IF k = Len(Appended) - 1 THEN "navigation"
                                           ELSE IF k = Len(Appended) THEN "page_widgets"
                                           ELSE "update")
       /\ (last'.op = "navigate_to_resume" /\ nav.pc = "to_hook")
           => /\ Actions(Appended) = <<"navigation", "page_widgets">>
              /\ UNCHANGED <<props, current_page, history>>]_vars

\* a navigate_to that waited in on_navigation_from has switched the pages and
\* waits in on_navigation_to
C28_Witness ==
    /\ last.op = "navigate_to_resume"
    /\ last.phase = "to_hook"
    /\ nav.pc = "to_hook"
    /\ last.from # None
    /\ last.from # last.target
    /\ current_page = last.target

\* the step in which a navigate_to switches the pages
SwitchStep ==
    \/ last'.op = "navigate_to" /\ last'.found /\ last'.phase # "from_hook"
    \/ last'.op = "navigate_to_resume" /\ nav.pc = "from_hook"

C30_RegisterPage ==
    [][last'.op = "register_page" =>
          \E w \in NodeIds' :
              /\ w = last'.page
              /\ w \notin NodeIds
              /\ children'[RootId] = Append(children[RootId], w)
              /\ parent'[w] = RootId
              /\ \A n \in {w} \cup Descendants(w)' : n \in widgets' /\ app'[n]
              /\ Get(props'[w], "visible", None) = PyFalse
              /\ pages' = PutPage(pages, last'.path, w)
              /\ \E i \in DOMAIN pages' : pages'[i] = [path |-> last'.path, page |-> w]
              /\ default_page' = IF default_page = None THEN last'.path ELSE default_page
              /\ UNCHANGED <<current_page, history, nav>>
              /\ \A n \in NodeIds :
                     /\ props'[n] = props[n]
                     /\ parent'[n] = parent[n]
                     /\ n # RootId => children'[n] = children[n]]_vars

\* a page with a Label of its own has been registered after a navigation, under
\* a path that is not the default
C30_Witness ==
    /\ last.op = "register_page"
    /\ current_page # None
    /\ history # <<>>
    /\ default_page # last.path
    /\ children[last.page] # <<>>
    /\ children[RootId][Len(children[RootId])] = last.page
    /\ VisiblePages = {current_page}

\* the place of the first subscriber that raises, 0 if none does
FirstFailing(hs) ==
    IF \E k \in DOMAIN hs : Raises(hs[k])
    THEN CHOOSE k \in DOMAIN hs : Raises(hs[k]) /\ \A j \in 1..(k - 1) : ~Raises(hs[j])
    ELSE 0

\* C31: when a subscriber fails during an emit the failure reaches the caller of
\* emit, the subscribers after the failing one are not invoked for that emit,
\* what the earlier subscribers wrote is kept, and the subscriber list is as it
\* was, so that every emit starts again from the first subscriber.
C31_EmitStopsAtFailure ==
    [][(last'.op = "handle_client_message" /\ last'.found /\ last'.emits # <<>>) =>
          LET hs == handlers[last'.event.id][last'.emits[1].signal]
              f == FirstFailing(hs)
              m == IF last'.event.type = "change" /\ "value" \in DOMAIN last'.event.data
                   THEN 1 ELSE 0
          IN  /\ handlers' = handlers
              /\ last'.raised = (f # 0)
              /\ [k \in DOMAIN last'.ran |-> last'.ran[k].kind]
                     = SubSeq(hs, 1, IF f = 0 THEN Len(hs) ELSE f)
              /\ Len(update_queue') = Len(update_queue) + m + Len(Writers(last'.ran))
              /\ \A k \in 1..Len(Writers(last'.ran)) :
                     update_queue'[Len(update_queue) + m + k] =
                         UpdateRecord(GreetingId, "text",
                                      Get(props'[NameInputId], "value", ""))]_vars

\* the first of two subscribers raised and the second was not invoked
C31_Witness ==
    /\ HandledMessage /\ last.raised
    /\ Len(last.ran) = 1
    /\ last.emits # <<>>
    /\ Len(handlers[last.event.id][last.emits[1].signal]) = 2
    /\ Len(update_queue) = last.q0 + (IF Mirrored THEN 2 ELSE 1)

\* how often an emit invoked the subscriber hk
Invocations(ran, hk) == Cardinality({k \in DOMAIN ran : ran[k] = hk})
Distinct(hs) == \A i \in DOMAIN hs, j \in DOMAIN hs : hs[i] = hs[j] => i = j

\* C32 as stated: an emit invokes exactly once every subscriber that was
\* connected when it began and was not disconnected before its turn, also when a
\* subscriber connects or disconnects subscribers of the Signal meanwhile.  (No
\* subscriber of the model is disconnected before its turn: "once" disconnects
\* itself when it is invoked.)
C32_EachSubscriberOnce ==
    (last.op \in {"emit", "emit_resume"} /\ last.done /\ Distinct(last.subs)) =>
        \A hk \in Range(last.subs) : Invocations(last.ran, hk) = 1

\* C33 as stated: no updates batch is sent to a client before the client's
\* initial-state send has completed, a flush scheduled before connect_client and
\* a connect_client that suspends in its send included.
C33_InitialStateFirst ==
    \A i \in Sending : tasks[i].to \cap connecting = {}

\* C34: the registry only grows and a widget's binding to the application is
\* never cleared: a widget taken out of the tree, and its descendants, stay
\* registered and bound, a set_property on them still enqueues one update
\* record, and an event for their id still reaches their subscribers.
C34_RegistryOnlyGrows ==
    [][/\ widgets \subseteq widgets'
       /\ \A n \in NodeIds : app[n] => app'[n]
       /\ (last'.op = "remove" /\ last'.was_child)
              => \A n \in {last'.child} \cup Descendants(last'.child) :
                     (n \in widgets => n \in widgets') /\ app'[n] = app[n]
       /\ (last'.op = "set_property" /\ last'.id \in widgets)
              => Appended = <<UpdateRecord(last'.id, last'.property, last'.value)>>
       /\ (last'.op = "handle_client_message" /\ last'.event.id \in widgets)
              => /\ last'.found
                 /\ Len(last'.ran) = Len(handlers[last'.event.id][last'.event.type])]_vars

\* the button has been removed from the root, and a property of the greeting
\* under it has been set and queued
C34_Witness ==
    /\ last.op = "set_property"
    /\ last.id = GreetingId
    /\ parent[GreetingId] = ButtonId
    /\ parent[ButtonId] = None
    /\ GreetingId \notin ReachableFromRoot
    /\ update_queue # <<>>
    /\ update_queue[Len(update_queue)] = UpdateRecord(GreetingId, "text", "b")

\* a click for the removed button has reached its subscriber
C34_WitnessEvent ==
    /\ last.op = "handle_client_message"
    /\ last.event.id = ButtonId
    /\ parent[ButtonId] = None
    /\ Len(last.ran) >= 1

\* C35 as stated: add(child) of a widget bound to no application, under a parent
\* that is bound, enqueues no record; add(child) of a widget that is a child of
\* another bound parent enqueues one remove record for the child and then one
\* update record for the child's parent property, and nothing else.
C35_AddRecords ==
    [][last'.op = "add" =>
          /\ (last'.fresh /\ app[last'.parent] /\ (last'.from = None \/ ~app[last'.from]))
                 => Appended = <<>>
          /\ (last'.from \notin {None, last'.parent} /\ app[last'.from])
                 => Appended = <<RemoveRecord(last'.child),
                                 UpdateRecord(last'.child, "parent", last'.parent)>>]_vars

====
